---- MODULE Spec2Model ----
(***************************************************************************)
(* Model of dash_app.py, the SpaceX launch dashboard.                      *)
(*                                                                         *)
(* The module-level statements of dash_app.py run once, in file order      *)
(* (fetch, read_csv, min/max, Dash(), options, layout, the two             *)
(* @app.callback registrations, run_server).  Afterwards the browser       *)
(* loads the page, and every change of the dropdown or of the slider       *)
(* makes Dash invoke the callbacks that declare that component as Input.   *)
(***************************************************************************)
EXTENDS Integers, Sequences, FiniteSets, TLC

VARIABLES
    source,        \* what DATA_URL serves: [kind, rows]; never written
    pc,            \* the module-level statement to execute next
    defined,       \* module-level names bound so far
    fetches,       \* number of requests.get(DATA_URL) calls made
    error,         \* the exception that ended the import, "" if none
    spacex_df,     \* the data frame: [columns, rows]
    min_payload,
    max_payload,
    options,       \* the dropdown's option values
    layout,        \* app.layout
    callbacks,     \* callbacks registered with @app.callback
    client,        \* "closed" until the browser has loaded the page
    site,          \* value of site-dropdown in the browser
    payloadRange,  \* value of payload-slider in the browser
    pending,       \* callbacks Dash has still to invoke for the last event
    pieFig,        \* figure of success-pie-chart
    scatterFig     \* figure of success-payload-scatter-chart

vars == <<source, pc, defined, fetches, error, spacex_df, min_payload,
          max_payload, options, layout, callbacks, client, site,
          payloadRange, pending, pieFig, scatterFig>>

---------------------------------------------------------------------------
(* Bounds of the model *)

MaxRecords == 2
MaxSliderSteps == 2

(* Program constants *)

COLORS == <<"#377eb8", "#ff7f00", "#f781bf", "#4daf4a">>

\* cc.glasbey_light, of which only a prefix is ever zipped
PALETTE == <<"glasbey_light[0]", "glasbey_light[1]", "glasbey_light[2]">>

SliderMin == 0
SliderMax == 10000
SliderStep == 1000

ALL == "ALL"

\* Python's None, the value of a cleared dropdown
NoSite == "None"

\* float NaN, what pandas' max()/min() give for an empty column
NaN == -1

SITE == "Launch Site"
PAYLOAD == "Payload Mass (kg)"
CLASS == "class"
BOOSTER == "Booster Version Category"

Columns == {SITE, PAYLOAD, CLASS, BOOSTER}

---------------------------------------------------------------------------
(* The inputs: what DATA_URL can serve *)

FewSites == {"CCAFS LC-40", "VAFB SLC-4E"}
ManySites == <<"CCAFS LC-40", "VAFB SLC-4E", "KSC LC-39A", "CCAFS SLC-40", "Starbase">>

\* payload mass and booster category of the launches the tables are made of
Launches == {<<1000, "v1.1">>, <<1500, "FT">>}

CsvRow(s, p, c, b) == [Site |-> s, Payload |-> p, Class |-> c, Booster |-> b]

FewSiteRows == {CsvRow(s, l[1], c, l[2]) : s \in FewSites, l \in Launches, c \in {0, 1}}

\* every sequence of at most MaxRecords rows over two sites
FewSiteTables == UNION {[1..n -> FewSiteRows] : n \in 0..MaxRecords}

\* tables with one launch per site, over a prefix of ManySites
ManySiteTables ==
    UNION {{[i \in 1..n |-> CsvRow(ManySites[i], 1000, c[i], "FT")] : c \in [1..n -> {0, 1}]} :
              n \in 0..Len(ManySites)}

Tables == FewSiteTables \cup ManySiteTables

Sources ==
    {[kind |-> "ok", rows |-> t] : t \in Tables}
    \cup {[kind |-> k, rows |-> <<>>] : k \in {"unreachable", "http_error", "unparseable"}}

---------------------------------------------------------------------------
(* pandas helpers *)

Range(seq) == {seq[i] : i \in 1..Len(seq)}

MinOf(S) == CHOOSE x \in S : \A y \in S : x <= y
MaxOf(S) == CHOOSE x \in S : \A y \in S : x >= y

\* pd.read_csv: the rows under a RangeIndex starting at 0
DataFrame(rows) ==
    [columns |-> Columns,
     rows |-> [i \in 1..Len(rows) |->
                  [index |-> i - 1, site |-> rows[i].Site, payload |-> rows[i].Payload,
                   class |-> rows[i].Class, booster |-> rows[i].Booster]]]

\* what read_csv makes of content that is no launch table, when it does not raise
ForeignFrame == [columns |-> {}, rows |-> <<>>]

Cell(row, col) ==
    CASE col = SITE -> row.site
      [] col = PAYLOAD -> row.payload
      [] col = CLASS -> row.class
      [] col = BOOSTER -> row.booster

\* df[col]
Column(df, col) == [i \in 1..Len(df.rows) |-> Cell(df.rows[i], col)]

\* series == value, series >= value, series <= value: boolean Series
Eq(series, value) == [i \in 1..Len(series) |-> series[i] = value]
Ge(series, value) == [i \in 1..Len(series) |-> series[i] >= value]
Le(series, value) == [i \in 1..Len(series) |-> series[i] <= value]
Lt(series, value) == [i \in 1..Len(series) |-> series[i] < value]

\* mask1 & mask2
And(mask1, mask2) == [i \in 1..Len(mask1) |-> mask1[i] /\ mask2[i]]

\* df[mask]: the rows whose mask is true, in order, index labels kept
Mask(df, mask) ==
    LET kept == SelectSeq([i \in 1..Len(df.rows) |-> i], LAMBDA i : mask[i])
    IN  [df EXCEPT !.rows = [k \in 1..Len(kept) |-> df.rows[kept[k]]]]

RECURSIVE Unique(_)
\* Series.unique(): distinct values in order of first appearance
Unique(seq) ==
    IF seq = <<>> THEN <<>>
    ELSE LET front == Unique(SubSeq(seq, 1, Len(seq) - 1))
             last == seq[Len(seq)]
         IN  IF last \in Range(front) THEN front ELSE Append(front, last)

\* Series.max() / Series.min()
SeriesMax(seq) == IF seq = <<>> THEN NaN ELSE MaxOf(Range(seq))
SeriesMin(seq) == IF seq = <<>> THEN NaN ELSE MinOf(Range(seq))

\* dict(zip(keys, values)) for distinct keys, as the list of its items
Zip(keys, values) ==
    [i \in 1..(IF Len(keys) < Len(values) THEN Len(keys) ELSE Len(values)) |->
        <<keys[i], values[i]>>]

\* f"{int(x):8,d}": the digit groups the commas separate
ThousandsFormat(x) == IF x < 1000 THEN <<x>> ELSE <<x \div 1000, x % 1000>>

---------------------------------------------------------------------------
(* Module-level statements *)

\* the callbacks decorated ahead of the data load
StartupOrderCallbacksFirst ==
    <<"fetch", "create_app", "register_pie", "register_scatter", "read_csv", "min_max",
      "options", "layout", "run_server">>

StartupOrder ==
    <<"fetch", "read_csv", "min_max", "create_app", "options", "layout",
      "register_pie", "register_scatter", "run_server">>

NextPc(p) ==
    LET i == CHOOSE j \in 1..Len(StartupOrder) : StartupOrder[j] = p
    IN  IF i = Len(StartupOrder) THEN "serving" ELSE StartupOrder[i + 1]

\* a dcc.Graph that has not been given a figure yet
NoFigure ==
    [kind |-> "none", data_frame |-> ForeignFrame, names |-> "", title |-> <<>>,
     color |-> "", color_discrete_map |-> <<>>]

NoScatter ==
    [kind |-> "none", data_frame |-> ForeignFrame, names |-> "", title |-> <<>>,
     color |-> "", color_discrete_map |-> <<>>, x |-> "", y |-> "", size |-> "",
     category_orders |-> <<>>, ticktext |-> <<>>]

NoLayout ==
    [set |-> FALSE, dropdown_options |-> <<>>, dropdown_value |-> "",
     slider_min |-> 0, slider_max |-> 0, slider_step |-> 0, slider_value |-> <<NaN, NaN>>]

Init ==
    /\ source \in Sources
    /\ pc = StartupOrder[1]
    /\ defined = {}
    /\ fetches = 0
    /\ error = ""
    /\ spacex_df = ForeignFrame
    /\ min_payload = NaN
    /\ max_payload = NaN
    /\ options = <<>>
    /\ layout = NoLayout
    /\ callbacks = {}
    /\ client = "closed"
    /\ site = ""
    /\ payloadRange = <<NaN, NaN>>
    /\ pending = {}
    /\ pieFig = NoFigure
    /\ scatterFig = NoScatter

\* an uncaught exception at module level ends the import
Raise(exc) ==
    /\ pc' = "aborted"
    /\ error' = exc

\* a fetch that tries again after a failure
FetchRetrying ==
    /\ pc = "fetch"
    /\ fetches' = fetches + 1
    /\ IF source.kind \in {"unreachable", "http_error"}
       THEN UNCHANGED <<pc, error, defined>>
       ELSE /\ pc' = NextPc(pc)
            /\ defined' = defined \cup {"response"}
            /\ UNCHANGED error
    /\ UNCHANGED <<source, spacex_df, min_payload, max_payload, options, layout,
                   callbacks, client, site, payloadRange, pending, pieFig, scatterFig>>

\* requests.get(DATA_URL, timeout=2); response.raise_for_status()
Fetch ==
    /\ pc = "fetch"
    /\ fetches' = fetches + 1
    /\ IF source.kind \in {"unreachable", "http_error"}
       THEN \* the handler raises a str, which is itself a TypeError
            /\ Raise("TypeError")
            /\ UNCHANGED defined
       ELSE /\ pc' = NextPc(pc)
            /\ defined' = defined \cup {"response"}
            /\ UNCHANGED error
    /\ UNCHANGED <<source, spacex_df, min_payload, max_payload, options, layout,
                   callbacks, client, site, payloadRange, pending, pieFig, scatterFig>>

\* spacex_df = pd.read_csv(io.BytesIO(response.content))
ReadCsv ==
    /\ pc = "read_csv"
    /\ IF "response" \notin defined
       THEN Raise("NameError") /\ UNCHANGED <<defined, spacex_df>>
       ELSE IF source.kind = "unparseable"
       THEN \/ Raise("ParserError") /\ UNCHANGED <<defined, spacex_df>>
            \/ /\ spacex_df' = ForeignFrame
               /\ defined' = defined \cup {"spacex_df"}
               /\ pc' = NextPc(pc)
               /\ UNCHANGED error
       ELSE /\ spacex_df' = DataFrame(source.rows)
            /\ defined' = defined \cup {"spacex_df"}
            /\ pc' = NextPc(pc)
            /\ UNCHANGED error
    /\ UNCHANGED <<source, fetches, min_payload, max_payload, options, layout,
                   callbacks, client, site, payloadRange, pending, pieFig, scatterFig>>

\* max_payload = spacex_df[PAYLOAD].max(); min_payload = spacex_df[PAYLOAD].min()
MinMax ==
    /\ pc = "min_max"
    /\ IF "spacex_df" \notin defined
       THEN Raise("NameError") /\ UNCHANGED <<defined, min_payload, max_payload>>
       ELSE IF PAYLOAD \notin spacex_df.columns
       THEN Raise("KeyError") /\ UNCHANGED <<defined, min_payload, max_payload>>
       ELSE /\ max_payload' = SeriesMax(Column(spacex_df, PAYLOAD))
            /\ min_payload' = SeriesMin(Column(spacex_df, PAYLOAD))
            /\ defined' = defined \cup {"min_payload", "max_payload"}
            /\ pc' = NextPc(pc)
            /\ UNCHANGED error
    /\ UNCHANGED <<source, fetches, spacex_df, options, layout,
                   callbacks, client, site, payloadRange, pending, pieFig, scatterFig>>

\* app = dash.Dash(__name__)
CreateApp ==
    /\ pc = "create_app"
    /\ defined' = defined \cup {"app"}
    /\ pc' = NextPc(pc)
    /\ UNCHANGED <<source, fetches, error, spacex_df, min_payload, max_payload, options,
                   layout, callbacks, client, site, payloadRange, pending, pieFig,
                   scatterFig>>

\* options = [...unique sites...]; options.insert(0, ALL)
BuildOptions ==
    /\ pc = "options"
    /\ IF "spacex_df" \notin defined
       THEN Raise("NameError") /\ UNCHANGED <<defined, options>>
       ELSE IF SITE \notin spacex_df.columns
       THEN Raise("KeyError") /\ UNCHANGED <<defined, options>>
       ELSE /\ options' = <<ALL>> \o Unique(Column(spacex_df, SITE))
            /\ defined' = defined \cup {"options"}
            /\ pc' = NextPc(pc)
            /\ UNCHANGED error
    /\ UNCHANGED <<source, fetches, spacex_df, min_payload, max_payload, layout,
                   callbacks, client, site, payloadRange, pending, pieFig, scatterFig>>

\* app.layout = html.Div(...)
SetLayout ==
    /\ pc = "layout"
    /\ IF {"app", "options", "min_payload", "max_payload"} \subseteq defined
       THEN /\ layout' = [set |-> TRUE,
                          dropdown_options |-> options,
                          dropdown_value |-> ALL,
                          slider_min |-> SliderMin,
                          slider_max |-> SliderMax,
                          slider_step |-> SliderStep,
                          slider_value |-> <<min_payload, max_payload>>]
            /\ pc' = NextPc(pc)
            /\ UNCHANGED error
       ELSE Raise("NameError") /\ UNCHANGED layout
    /\ UNCHANGED <<source, defined, fetches, spacex_df, min_payload, max_payload, options,
                   callbacks, client, site, payloadRange, pending, pieFig, scatterFig>>

Register(position, callback) ==
    /\ pc = position
    /\ IF "app" \in defined
       THEN /\ callbacks' = callbacks \cup {callback}
            /\ pc' = NextPc(pc)
            /\ UNCHANGED error
       ELSE Raise("NameError") /\ UNCHANGED callbacks
    /\ UNCHANGED <<source, defined, fetches, spacex_df, min_payload, max_payload, options,
                   layout, client, site, payloadRange, pending, pieFig, scatterFig>>

\* @app.callback(Output(success-pie-chart), Input(site-dropdown))
RegisterPie == Register("register_pie", "get_pie_chart")

\* @app.callback(Output(success-payload-scatter-chart), Input(site-dropdown), Input(payload-slider))
RegisterScatter == Register("register_scatter", "get_scatter_chart")

\* if __name__ == "__main__": app.run_server()
RunServer ==
    /\ pc = "run_server"
    /\ IF "app" \in defined
       THEN pc' = NextPc(pc) /\ UNCHANGED error
       ELSE Raise("NameError")
    /\ UNCHANGED <<source, defined, fetches, spacex_df, min_payload, max_payload, options,
                   layout, callbacks, client, site, payloadRange, pending, pieFig,
                   scatterFig>>

---------------------------------------------------------------------------
(* The callbacks *)

\* the all-sites branch without its class filter
PieSubsetAllClasses(entered_site) ==
    IF entered_site = ALL
    THEN spacex_df
    ELSE Mask(spacex_df, Eq(Column(spacex_df, SITE), entered_site))

\* a site the table does not hold falls back to the whole table
PieSubsetUnknownSiteAll(entered_site) ==
    IF entered_site = ALL
    THEN Mask(spacex_df, Eq(Column(spacex_df, CLASS), 1))
    ELSE IF entered_site \notin Range(Column(spacex_df, SITE))
    THEN spacex_df
    ELSE Mask(spacex_df, Eq(Column(spacex_df, SITE), entered_site))

\* the rows get_pie_chart hands to px.pie
PieSubset(entered_site) ==
    IF entered_site = ALL
    THEN Mask(spacex_df, Eq(Column(spacex_df, CLASS), 1))
    ELSE Mask(spacex_df, Eq(Column(spacex_df, SITE), entered_site))

\* the color_discrete_map get_pie_chart hands to px.pie
PieColorMap(entered_site, filtered_df) ==
    IF entered_site = ALL
    THEN Zip(Unique(Column(filtered_df, SITE)), COLORS)
    ELSE <<<<1, COLORS[2]>>, <<0, COLORS[4]>>>>

get_pie_chart(entered_site) ==
    LET filtered_df == PieSubset(entered_site)
    IN  IF entered_site = ALL
        THEN [kind |-> "pie",
              data_frame |-> filtered_df,
              names |-> SITE,
              title |-> <<"Percentage of Successful Launches Across All Sites">>,
              color |-> SITE,
              color_discrete_map |-> PieColorMap(entered_site, filtered_df)]
        ELSE [kind |-> "pie",
              data_frame |-> filtered_df,
              names |-> CLASS,
              title |-> <<"Success vs. Failure for Launch Site: ", entered_site>>,
              color |-> CLASS,
              color_discrete_map |-> PieColorMap(entered_site, filtered_df)]

\* the upper payload bound taken exclusive
ScatterSubsetExclusive(entered_site, selected_payload_range) ==
    LET by_site == IF entered_site = ALL
                   THEN spacex_df
                   ELSE Mask(spacex_df, Eq(Column(spacex_df, SITE), entered_site))
    IN  Mask(by_site, And(Ge(Column(by_site, PAYLOAD), selected_payload_range[1]),
                          Lt(Column(by_site, PAYLOAD), selected_payload_range[2])))

\* both payload comparisons made against selected_payload_range[0]
ScatterSubsetLowTwice(entered_site, selected_payload_range) ==
    LET by_site == IF entered_site = ALL
                   THEN spacex_df
                   ELSE Mask(spacex_df, Eq(Column(spacex_df, SITE), entered_site))
    IN  Mask(by_site, And(Ge(Column(by_site, PAYLOAD), selected_payload_range[1]),
                          Le(Column(by_site, PAYLOAD), selected_payload_range[1])))

\* the rows get_scatter_chart hands to px.scatter
ScatterSubset(entered_site, selected_payload_range) ==
    LET by_site == IF entered_site = ALL
                   THEN spacex_df
                   ELSE Mask(spacex_df, Eq(Column(spacex_df, SITE), entered_site))
    IN  Mask(by_site, And(Ge(Column(by_site, PAYLOAD), selected_payload_range[1]),
                          Le(Column(by_site, PAYLOAD), selected_payload_range[2])))

\* an exception leaving a callback: Dash answers 500 and the graph keeps its figure
Raised(exc) == [NoScatter EXCEPT !.kind = "raised", !.names = exc]

get_scatter_chart(entered_site, selected_payload_range) ==
    IF selected_payload_range[1] = NaN \/ selected_payload_range[2] = NaN
    THEN \* int() of a NaN (or of the None it is serialised to) raises in the title
         Raised("ValueError")
    ELSE LET filtered_df == ScatterSubset(entered_site, selected_payload_range)
         IN  [kind |-> "scatter",
              data_frame |-> filtered_df,
              names |-> "",
              title |-> <<"Site: ", entered_site, ", Payload mass is between ",
                          ThousandsFormat(selected_payload_range[1]), " kg and ",
                          ThousandsFormat(selected_payload_range[2]), " kg">>,
              color |-> BOOSTER,
              color_discrete_map |-> Zip(Unique(Column(filtered_df, BOOSTER)), PALETTE),
              x |-> PAYLOAD,
              y |-> CLASS,
              size |-> PAYLOAD,
              category_orders |-> <<0, 1>>,
              ticktext |-> <<"Failure", "Success">>]

---------------------------------------------------------------------------
(* Dash: the page and its events *)

\* the pie callback declaring the slider as an Input too
InputsPieOnSlider(callback) ==
    CASE callback = "get_pie_chart" -> {"site-dropdown", "payload-slider"}
      [] callback = "get_scatter_chart" -> {"site-dropdown", "payload-slider"}

\* the Input components each callback declares
Inputs(callback) ==
    CASE callback = "get_pie_chart" -> {"site-dropdown"}
      [] callback = "get_scatter_chart" -> {"site-dropdown", "payload-slider"}

\* the callbacks Dash invokes when component changes
Triggered(component) == {cb \in callbacks : component \in Inputs(cb)}

\* values the dropdown can send: its options, None when cleared, or a site
\* the table does not hold
SiteValues == {ALL, NoSite} \cup FewSites \cup Range(Column(spacex_df, SITE))

\* positions of the RangeSlider handles
SliderPositions ==
    {p \in SliderMin..SliderMax :
        \E k \in 0..MaxSliderSteps : p = SliderMin + k * SliderStep}

\* the browser loads the page: the components take the layout's values and
\* every callback is invoked once
PageLoad ==
    /\ pc = "serving"
    /\ client = "closed"
    /\ layout.set
    /\ client' = "open"
    /\ site' = layout.dropdown_value
    /\ payloadRange' = layout.slider_value
    /\ pending' = callbacks
    /\ UNCHANGED <<source, pc, defined, fetches, error, spacex_df, min_payload,
                   max_payload, options, layout, callbacks, pieFig, scatterFig>>

SelectSite(s) ==
    /\ pc = "serving"
    /\ client = "open"
    /\ pending = {}
    /\ s # site
    /\ site' = s
    /\ pending' = Triggered("site-dropdown")
    /\ UNCHANGED <<source, pc, defined, fetches, error, spacex_df, min_payload,
                   max_payload, options, layout, callbacks, client, payloadRange,
                   pieFig, scatterFig>>

SlideRange(low, high) ==
    /\ pc = "serving"
    /\ client = "open"
    /\ pending = {}
    /\ low <= high
    /\ <<low, high>> # payloadRange
    /\ payloadRange' = <<low, high>>
    /\ pending' = Triggered("payload-slider")
    /\ UNCHANGED <<source, pc, defined, fetches, error, spacex_df, min_payload,
                   max_payload, options, layout, callbacks, client, site,
                   pieFig, scatterFig>>

\* a pie callback that keeps the first figure it built
RunPieMemoized ==
    /\ pc = "serving"
    /\ "get_pie_chart" \in pending
    /\ pending' = pending \ {"get_pie_chart"}
    /\ pieFig' = IF pieFig.kind = "pie" THEN pieFig ELSE get_pie_chart(site)
    /\ UNCHANGED <<source, pc, defined, fetches, error, spacex_df, min_payload,
                   max_payload, options, layout, callbacks, client, site,
                   payloadRange, scatterFig>>

\* get_pie_chart
RunPie ==
    /\ pc = "serving"
    /\ "get_pie_chart" \in pending
    /\ pending' = pending \ {"get_pie_chart"}
    /\ pieFig' = get_pie_chart(site)
    /\ UNCHANGED <<source, pc, defined, fetches, error, spacex_df, min_payload,
                   max_payload, options, layout, callbacks, client, site,
                   payloadRange, scatterFig>>

\* a scatter callback that rebinds the global table to its filtered rows
RunScatterNarrowingGlobal ==
    /\ pc = "serving"
    /\ "get_scatter_chart" \in pending
    /\ pending' = pending \ {"get_scatter_chart"}
    /\ LET fig == get_scatter_chart(site, payloadRange)
       IN  /\ scatterFig' = IF fig.kind = "raised" THEN scatterFig ELSE fig
           /\ spacex_df' = IF fig.kind = "raised" THEN spacex_df ELSE fig.data_frame
    /\ UNCHANGED <<source, pc, defined, fetches, error, min_payload,
                   max_payload, options, layout, callbacks, client, site,
                   payloadRange, pieFig>>

\* get_scatter_chart
RunScatter ==
    /\ pc = "serving"
    /\ "get_scatter_chart" \in pending
    /\ pending' = pending \ {"get_scatter_chart"}
    /\ LET fig == get_scatter_chart(site, payloadRange)
       IN  scatterFig' = IF fig.kind = "raised" THEN scatterFig ELSE fig
    /\ UNCHANGED <<source, pc, defined, fetches, error, spacex_df, min_payload,
                   max_payload, options, layout, callbacks, client, site,
                   payloadRange, pieFig>>

Next ==
    \/ Fetch
    \/ ReadCsv
    \/ MinMax
    \/ CreateApp
    \/ BuildOptions
    \/ SetLayout
    \/ RegisterPie
    \/ RegisterScatter
    \/ RunServer
    \/ PageLoad
    \/ \E s \in SiteValues : SelectSite(s)
    \/ \E low \in SliderPositions, high \in SliderPositions : SlideRange(low, high)
    \/ RunPie
    \/ RunScatter

Spec == Init /\ [][Next]_vars

---------------------------------------------------------------------------
(* Properties *)

\* the page is open and Dash has no callback left to invoke
Quiescent == pc = "serving" /\ client = "open" /\ pending = {}

Numeric(r) == r[1] # NaN /\ r[2] # NaN

\* the launch table DATA_URL serves, row i of the CSV under index label i - 1
Dataset == source.rows

IndexLabels(df) == {df.rows[i].index : i \in 1..Len(df.rows)}

\* df holds exactly the rows of Dataset with the labels in wanted, once each,
\* with the cells the CSV has
HoldsExactly(df, wanted) ==
    /\ IndexLabels(df) = wanted
    /\ Len(df.rows) = Cardinality(wanted)
    /\ \A i \in 1..Len(df.rows) :
          LET row == df.rows[i]
              csv == Dataset[row.index + 1]
          IN  /\ row.site = csv.Site
              /\ row.payload = csv.Payload
              /\ row.class = csv.Class
              /\ row.booster = csv.Booster

\* C1: a change of the dropdown makes Dash invoke both callbacks; a change of
\* the slider alone makes it invoke get_scatter_chart only, and the pie
\* figure stays what it was.
ReactiveTransitionRule ==
    [][client = "open" =>
          /\ site' # site => pending' = {"get_pie_chart", "get_scatter_chart"}
          /\ (payloadRange' # payloadRange /\ site' = site) =>
                (pending' = {"get_scatter_chart"} /\ pieFig' = pieFig)
          /\ "get_pie_chart" \in pending' \ pending => site' # site]_vars

\* C1 witness: the slider alone was moved (the scatter figure on display is
\* for the current site and another range) and only get_scatter_chart is due.
SliderMovedOnly ==
    /\ pc = "serving"
    /\ pending = {"get_scatter_chart"}
    /\ pieFig = get_pie_chart(site)
    /\ scatterFig.kind = "scatter"
    /\ scatterFig.title[2] = site
    /\ <<scatterFig.title[4], scatterFig.title[6]>> #
          <<ThousandsFormat(payloadRange[1]), ThousandsFormat(payloadRange[2])>>

\* C2: the rows get_scatter_chart plots are exactly the rows of the dataset
\* with low <= payload <= high and, unless the selection is "ALL", with the
\* selected site.
ScatterPlotsExactSubset ==
    (Quiescent /\ Numeric(payloadRange)) =>
        /\ scatterFig.kind = "scatter"
        /\ HoldsExactly(scatterFig.data_frame,
              {i - 1 : i \in {j \in 1..Len(Dataset) :
                  /\ payloadRange[1] <= Dataset[j].Payload
                  /\ Dataset[j].Payload <= payloadRange[2]
                  /\ (site # ALL => Dataset[j].Site = site)}})

\* C2 witness: a site is selected, a plotted launch sits on the upper bound
\* of the range and another launch of the table is left out.
ScatterBoundaryRowPlotted ==
    /\ Quiescent
    /\ site \in FewSites
    /\ \E i \in 1..Len(scatterFig.data_frame.rows) :
          scatterFig.data_frame.rows[i].payload = payloadRange[2]
    /\ Len(scatterFig.data_frame.rows) < Len(spacex_df.rows)

\* C3: for "ALL" the rows get_pie_chart plots are exactly the successes of
\* the dataset; for a site they are exactly that site's rows, of both classes.
PiePlotsExactSubset ==
    Quiescent =>
        /\ pieFig.kind = "pie"
        /\ HoldsExactly(pieFig.data_frame,
              {i - 1 : i \in {j \in 1..Len(Dataset) :
                  IF site = ALL THEN Dataset[j].Class = 1 ELSE Dataset[j].Site = site}})

\* C3 witness: "ALL" is selected, a success is plotted and a failure is not.
PieSuccessesPlotted ==
    /\ Quiescent
    /\ site = ALL
    /\ pieFig.data_frame.rows # <<>>
    /\ \E i \in 1..Len(spacex_df.rows) : spacex_df.rows[i].class = 0

\* C3 witness, second case: a site with a failed launch is selected and the
\* failure is plotted.
PieSiteFailurePlotted ==
    /\ Quiescent
    /\ site \in FewSites
    /\ \E i \in 1..Len(pieFig.data_frame.rows) : pieFig.data_frame.rows[i].class = 0

LoadedOnceThenReadOnly ==
    /\ [](fetches <= 1 /\ (pc = "serving" => fetches = 1))
    /\ []("spacex_df" \in defined /\ source.kind = "ok" => spacex_df = DataFrame(Dataset))
    /\ [][/\ "response" \in defined => fetches' = fetches
          /\ "spacex_df" \in defined => spacex_df' = spacex_df
          /\ "min_payload" \in defined =>
                (min_payload' = min_payload /\ max_payload' = max_payload)]_vars

\* C5 witness: after dropdown and slider events and their callbacks, one read
\* has been made and the table is non-empty.
EventsHandledAfterOneRead ==
    /\ Quiescent
    /\ fetches = 1
    /\ site \in FewSites
    /\ payloadRange # layout.slider_value
    /\ Len(scatterFig.data_frame.rows) < Len(spacex_df.rows)

\* the table and its two scalars are bound to what the source serves
Loaded ==
    /\ source.kind = "ok"
    /\ {"spacex_df", "min_payload", "max_payload"} \subseteq defined
    /\ spacex_df = DataFrame(Dataset)
    /\ min_payload = SeriesMin([i \in 1..Len(Dataset) |-> Dataset[i].Payload])
    /\ max_payload = SeriesMax([i \in 1..Len(Dataset) |-> Dataset[i].Payload])

\* C6: the load has completed before the layout is set, before a callback is
\* registered, before the server runs and before any callback is invoked.
LoadBeforeWiring ==
    (\/ layout.set
     \/ callbacks # {}
     \/ pc \in {"run_server", "serving"}
     \/ client = "open"
     \/ pending # {}
     \/ pieFig # NoFigure
     \/ scatterFig # NoScatter) => Loaded

\* C6 witness: both callbacks are about to run on a loaded, non-empty table.
CallbacksDueOnLoadedTable ==
    /\ pending = {"get_pie_chart", "get_scatter_chart"}
    /\ spacex_df.rows # <<>>
    /\ callbacks = {"get_pie_chart", "get_scatter_chart"}

\* C7: whenever the callbacks have run for the current (selection, range),
\* the two figures on display are the ones the callbacks give for that pair
\* and the table, whatever events came before.
FiguresDependOnInputsOnly ==
    Quiescent =>
        /\ pieFig = get_pie_chart(site)
        /\ Numeric(payloadRange) => scatterFig = get_scatter_chart(site, payloadRange)
        /\ spacex_df = DataFrame(Dataset)

\* C7 witness: a pair reached through events of both controls is on display.
PairReachedThroughEvents ==
    /\ Quiescent
    /\ site \in FewSites
    /\ payloadRange # layout.slider_value
    /\ pieFig.data_frame.rows # <<>>
    /\ scatterFig.data_frame.rows # <<>>

\* the payload bounds the model knows
Bounds == (SliderPositions \cup {min_payload, max_payload}) \ {NaN}

\* C8: every row plotted for a range is among the rows get_scatter_chart
\* selects for the same site and any wider range.
MonotonicNarrowing ==
    (Quiescent /\ Numeric(payloadRange)) =>
        \A low \in Bounds, high \in Bounds :
            (low <= payloadRange[1] /\ payloadRange[2] <= high) =>
                Range(scatterFig.data_frame.rows) \subseteq
                    Range(ScatterSubset(site, <<low, high>>).rows)

\* C8 witness: rows are plotted for a range that can be widened on both
\* sides, and the table has a row outside it.
NarrowRangePlotted ==
    /\ Quiescent
    /\ Numeric(payloadRange)
    /\ scatterFig.data_frame.rows # <<>>
    /\ \E low \in Bounds, high \in Bounds : low < payloadRange[1] /\ payloadRange[2] < high
    /\ Len(scatterFig.data_frame.rows) < Len(ScatterSubset(site, <<SliderMin, SliderMax>>).rows)

\* the selection is neither "ALL" nor a site of the table
AbsentSite == site # ALL /\ site \notin Range(Column(spacex_df, SITE))

PieKeys(fig) == Range(Column(fig.data_frame, fig.names))

\* C10: every key the pie groups by has a colour of COLORS in the figure's
\* color_discrete_map.
PieKeysColouredFromPalette ==
    (pc = "serving" /\ pieFig.kind = "pie") =>
        \A key \in PieKeys(pieFig) :
            \E i \in 1..Len(pieFig.color_discrete_map) :
                /\ pieFig.color_discrete_map[i][1] = key
                /\ pieFig.color_discrete_map[i][2] \in Range(COLORS)

====
